---- MODULE Spec2Model ----
(***************************************************************************)
(* A model of the CSV ingestion pipeline (csv_parser.py) and of the        *)
(* in-memory table engine (dataframe.py).                                  *)
(*                                                                         *)
(* Text is modelled as sequences of one-character strings, so that the     *)
(* tokenizer and the coercer work on characters as the code does.  A cell  *)
(* value is a record [tag, num, den, s]:                                   *)
(*     None          tag = "Null"                                          *)
(*     int  n        tag = "Int",   num = n, den = 1                       *)
(*     float x       tag = "Float", x = num/den in lowest terms, den > 0   *)
(*     float nan     tag = "Float", num = 0, den = 0                       *)
(*     str  t        tag = "Str",   s = t                                  *)
(* A row (a dict) is a sequence of <<key, value>> pairs with distinct      *)
(* keys, in insertion order.                                               *)
(***************************************************************************)
EXTENDS Integers, Sequences, FiniteSets, TLC

VARIABLES
    stats,      \* csv_parser.stats, the module-level counters
    pc,         \* "idle" | "reading" | "loaded": where read_csv's caller is
    header,     \* read_csv: header of the file being read
    rows,       \* read_csv: rows accumulated so far
    consumed,   \* the data lines of the file read so far in this run
    out,        \* the row list handed back by the last completed call
    runs,       \* number of read_csv calls started in this process
    df,         \* the DataFrame the table operations are called on
    res,        \* outcome of the last DataFrame call
    last        \* name of the last operation performed

vars == <<stats, pc, header, rows, consumed, out, runs, df, res, last>>

(***************************************************************************)
(* Bounds                                                                  *)
(***************************************************************************)
MaxLines == 2       \* data lines per file
MaxRuns == 2        \* read_csv calls per process
MaxRows == 3        \* rows of a table the queries run on
MaxTok == 3         \* characters of a token handed to the coercer
MaxLineLen == 4     \* characters of a line handed to the tokenizer
MaxDateLen == 7     \* characters of a release date
MaxSel == 3         \* characters of a selector text

(***************************************************************************)
(* Characters                                                              *)
(***************************************************************************)
Digits == {"0", "1", "2", "3", "4", "5", "6", "7", "8", "9"}
Quote == "\""
Comma == ","
Newline == "\n"
Space == " "

UpperLetters ==
    <<"A", "B", "C", "D", "E", "F", "G", "H", "I", "J", "K", "L", "M",
      "N", "O", "P", "Q", "R", "S", "T", "U", "V", "W", "X", "Y", "Z">>
LowerLetters ==
    <<"a", "b", "c", "d", "e", "f", "g", "h", "i", "j", "k", "l", "m",
      "n", "o", "p", "q", "r", "s", "t", "u", "v", "w", "x", "y", "z">>

\* str.lower() on one ASCII character
LowerChar(c) ==
    IF \E i \in 1..26 : UpperLetters[i] = c
    THEN LowerLetters[CHOOSE i \in 1..26 : UpperLetters[i] = c]
    ELSE c

Lower(t) == [i \in 1..Len(t) |-> LowerChar(t[i])]

IsSpace(c) == c \in {Space, Newline}

RECURSIVE LStrip(_)
LStrip(t) == IF t # <<>> /\ IsSpace(Head(t)) THEN LStrip(Tail(t)) ELSE t

RECURSIVE RStrip(_)
RStrip(t) ==
    IF t # <<>> /\ IsSpace(t[Len(t)]) THEN RStrip(SubSeq(t, 1, Len(t) - 1)) ELSE t

\* str.strip()
Strip(t) == RStrip(LStrip(t))

RECURSIVE RStripNewline(_)
\* str.rstrip("\n")
RStripNewline(t) ==
    IF t # <<>> /\ t[Len(t)] = Newline
    THEN RStripNewline(SubSeq(t, 1, Len(t) - 1))
    ELSE t

\* str.isdigit() on the characters used
IsDigitStr(t) == t # <<>> /\ \A i \in 1..Len(t) : t[i] \in Digits

DigitVal(c) ==
    CASE c = "0" -> 0 [] c = "1" -> 1 [] c = "2" -> 2 [] c = "3" -> 3 [] c = "4" -> 4
      [] c = "5" -> 5 [] c = "6" -> 6 [] c = "7" -> 7 [] c = "8" -> 8 [] c = "9" -> 9
      [] OTHER -> 0

RECURSIVE DigitsVal(_)
\* int() of a digit string
DigitsVal(t) ==
    IF t = <<>> THEN 0
    ELSE 10 * DigitsVal(SubSeq(t, 1, Len(t) - 1)) + DigitVal(t[Len(t)])

RECURSIVE Pow10(_)
Pow10(k) == IF k <= 0 THEN 1 ELSE 10 * Pow10(k - 1)

Abs(x) == IF x < 0 THEN -x ELSE x

RECURSIVE Gcd(_, _)
Gcd(a, b) == IF b = 0 THEN a ELSE Gcd(b, a % b)

(***************************************************************************)
(* Cell values                                                             *)
(***************************************************************************)
NullV == [tag |-> "Null", num |-> 0, den |-> 0, s |-> <<>>]
IntV(n) == [tag |-> "Int", num |-> n, den |-> 1, s |-> <<>>]
StrV(t) == [tag |-> "Str", num |-> 0, den |-> 0, s |-> t]
NaNV == [tag |-> "Float", num |-> 0, den |-> 0, s |-> <<>>]

\* the float num/den, den > 0, in lowest terms
FloatV(num, den) ==
    LET g == Gcd(Abs(num), den)
    IN  [tag |-> "Float", num |-> num \div g, den |-> den \div g, s |-> <<>>]

IsNone(v) == v.tag = "Null"
IsNaN(v) == v.tag = "Float" /\ v.den = 0
\* isinstance(v, (int, float))
IsNumber(v) == v.tag \in {"Int", "Float"}

\* Python's == on two cell values held by different objects: int and float
\* compare by numeric value, nan equals nothing, the types do not mix
\* otherwise.
PyEq(a, b) ==
    CASE IsNone(a) \/ IsNone(b) -> IsNone(a) /\ IsNone(b)
      [] a.tag = "Str" \/ b.tag = "Str" -> a.tag = b.tag /\ a.s = b.s
      [] IsNaN(a) \/ IsNaN(b) -> FALSE
      [] OTHER -> a.num * b.den = b.num * a.den

\* Python's < on two numbers
NumLt(a, b) == ~IsNaN(a) /\ ~IsNaN(b) /\ a.num * b.den < b.num * a.den

(***************************************************************************)
(* csv_parser: the counters, the coercer, the tokenizer                    *)
(***************************************************************************)
ZeroStats ==
    [total_rows |-> 0, total_fields |-> 0, num_nulls |-> 0, num_ints |-> 0,
     num_floats |-> 0, num_strings |-> 0, malformed_rows |-> 0,
     duplicates_removed |-> 0]

Bump(st, f) == [st EXCEPT ![f] = @ + 1]

NULLS ==
    { <<>>, <<"n", "a">>, <<"n", "/", "a">>, <<"n", "u", "l", "l">>,
      <<"n", "o", "n", "e">> }

Positions(t, c) == {i \in 1..Len(t) : t[i] = c}

AllDigits(t) == \A i \in 1..Len(t) : t[i] \in Digits

\* float(t) for a stripped t over the characters used: an optional "-", then
\* "nan" in any case, or digits with at most one "." and at least one digit,
\* optionally followed by e/E, an optional "-" and digits.  ok = FALSE is
\* ValueError.
ParseFloat(t) ==
    LET neg == t # <<>> /\ t[1] = "-"
        body == IF neg THEN Tail(t) ELSE t
        low == Lower(body)
        es == Positions(low, "e")
        epos == IF es = {} THEN Len(body) + 1 ELSE CHOOSE i \in es : TRUE
        mant == SubSeq(body, 1, epos - 1)
        expo == SubSeq(body, epos + 1, Len(body))
        eneg == expo # <<>> /\ expo[1] = "-"
        edig == IF eneg THEN Tail(expo) ELSE expo
        ds == Positions(mant, ".")
        dpos == IF ds = {} THEN Len(mant) + 1 ELSE CHOOSE i \in ds : TRUE
        ip == SubSeq(mant, 1, dpos - 1)
        fp == SubSeq(mant, dpos + 1, Len(mant))
        wellFormed ==
            /\ Cardinality(es) <= 1
            /\ es # {} => IsDigitStr(edig)
            /\ Cardinality(ds) <= 1
            /\ AllDigits(ip) /\ AllDigits(fp)
            /\ Len(ip) + Len(fp) >= 1
        mag == DigitsVal(ip \o fp)
        ex == (IF es = {} THEN 0 ELSE IF eneg THEN -DigitsVal(edig) ELSE DigitsVal(edig))
              - Len(fp)
        sgn == IF neg THEN -1 ELSE 1
    IN  IF low = <<"n", "a", "n">> THEN [ok |-> TRUE, val |-> NaNV]
        ELSE IF ~wellFormed THEN [ok |-> FALSE, val |-> NullV]
        ELSE IF ex >= 0 THEN [ok |-> TRUE, val |-> FloatV(sgn * mag * Pow10(ex), 1)]
        ELSE [ok |-> TRUE, val |-> FloatV(sgn * mag, Pow10(-ex))]

\* int(t) for an optional "-" followed by digits
ParseInt(t) == IF t[1] = "-" THEN -DigitsVal(Tail(t)) ELSE DigitsVal(t)

\* a coercer that tries float() before the integer test
CoerceFloatFirst(st, tok) ==
    LET t == Strip(tok)
        st1 == Bump(st, "total_fields")
        f == ParseFloat(t)
    IN  IF Lower(t) \in NULLS
        THEN [val |-> NullV, stats |-> Bump(st1, "num_nulls")]
        ELSE IF f.ok
        THEN [val |-> f.val, stats |-> Bump(st1, "num_floats")]
        ELSE IF t # <<>> /\ (IsDigitStr(t) \/ (t[1] = "-" /\ IsDigitStr(Tail(t))))
        THEN [val |-> IntV(ParseInt(t)), stats |-> Bump(st1, "num_ints")]
        ELSE [val |-> StrV(t), stats |-> Bump(st1, "num_strings")]

\* _coerce(tok): the value returned and the counters after the call
Coerce(st, tok) ==
    LET t == Strip(tok)
        st1 == Bump(st, "total_fields")
        f == ParseFloat(t)
    IN  IF Lower(t) \in NULLS
        THEN [val |-> NullV, stats |-> Bump(st1, "num_nulls")]
        ELSE IF t # <<>> /\ (IsDigitStr(t) \/ (t[1] = "-" /\ IsDigitStr(Tail(t))))
        THEN [val |-> IntV(ParseInt(t)), stats |-> Bump(st1, "num_ints")]
        ELSE IF f.ok
        THEN [val |-> f.val, stats |-> Bump(st1, "num_floats")]
        ELSE [val |-> StrV(t), stats |-> Bump(st1, "num_strings")]

RECURSIVE ScanNoEscape(_, _, _, _, _, _)
\* a scan without the escaped-quote rule: every quote toggles the flag
ScanNoEscape(line, delimiter, i, cur, in_quotes, fields) ==
    IF i > Len(line) THEN Append(fields, cur)
    ELSE LET ch == line[i] IN
        IF ch = Quote
        THEN ScanNoEscape(line, delimiter, i + 1, cur, ~in_quotes, fields)
        ELSE IF ch = delimiter /\ ~in_quotes
        THEN ScanNoEscape(line, delimiter, i + 1, <<>>, in_quotes, Append(fields, cur))
        ELSE IF ch = Newline /\ ~in_quotes
        THEN ScanNoEscape(line, delimiter, i + 1, cur, in_quotes, fields)
        ELSE ScanNoEscape(line, delimiter, i + 1, Append(cur, ch), in_quotes, fields)

RECURSIVE Scan(_, _, _, _, _, _)
\* the while loop of _split_csv_line, from index i (1-based)
Scan(line, delimiter, i, cur, in_quotes, fields) ==
    IF i > Len(line) THEN Append(fields, cur)
    ELSE LET ch == line[i] IN
        IF ch = Quote
        THEN IF in_quotes /\ i + 1 <= Len(line) /\ line[i + 1] = Quote
             THEN Scan(line, delimiter, i + 2, Append(cur, Quote), in_quotes, fields)
             ELSE Scan(line, delimiter, i + 1, cur, ~in_quotes, fields)
        ELSE IF ch = delimiter /\ ~in_quotes
        THEN Scan(line, delimiter, i + 1, <<>>, in_quotes, Append(fields, cur))
        ELSE IF ch = Newline /\ ~in_quotes
        THEN Scan(line, delimiter, i + 1, cur, in_quotes, fields)
        ELSE Scan(line, delimiter, i + 1, Append(cur, ch), in_quotes, fields)

\* _split_csv_line(line, delimiter)
SplitCsvLine(line, delimiter) == Scan(line, delimiter, 1, <<>>, FALSE, <<>>)

(***************************************************************************)
(* Rows: dicts as sequences of <<key, value>> pairs                        *)
(***************************************************************************)
Keys(row) == [i \in 1..Len(row) |-> row[i][1]]
KeySet(row) == {row[i][1] : i \in 1..Len(row)}
HasKey(row, k) == k \in KeySet(row)
\* row[k], for a key the row has
Get(row, k) == row[CHOOSE i \in 1..Len(row) : row[i][1] = k][2]

\* d[k] = v: a key already present keeps its place and takes the new value
DictSet(row, k, v) ==
    IF HasKey(row, k)
    THEN [i \in 1..Len(row) |-> IF row[i][1] = k THEN <<k, v>> ELSE row[i]]
    ELSE Append(row, <<k, v>>)

Min(a, b) == IF a < b THEN a ELSE b

RECURSIVE BuildRow(_, _, _, _, _)
\* {h: _coerce(v) for h, v in zip(header, parts)} from pair i on
BuildRow(hdr, parts, i, row, st) ==
    IF i > Min(Len(hdr), Len(parts)) THEN [row |-> row, stats |-> st]
    ELSE LET c == Coerce(st, parts[i])
         IN  BuildRow(hdr, parts, i + 1, DictSet(row, hdr[i], c.val), c.stats)

\* ord(c) for the characters used
Ord(c) ==
    CASE c = Newline -> 10 [] c = Space -> 32 [] c = Quote -> 34
      [] c = "," -> 44 [] c = "-" -> 45 [] c = "." -> 46 [] c = "/" -> 47
      [] c \in Digits -> 48 + DigitVal(c)
      [] c = "A" -> 65 [] c = "E" -> 69 [] c = "N" -> 78
      [] c = "a" -> 97 [] c = "b" -> 98 [] c = "e" -> 101 [] c = "k" -> 107
      [] c = "l" -> 108 [] c = "n" -> 110 [] c = "o" -> 111 [] c = "u" -> 117
      [] c = "v" -> 118 [] c = "x" -> 120
      [] OTHER -> 0

RECURSIVE StrLt(_, _)
\* Python's < on two strings
StrLt(a, b) ==
    IF b = <<>> THEN FALSE
    ELSE IF a = <<>> THEN TRUE
    ELSE IF a[1] = b[1] THEN StrLt(Tail(a), Tail(b))
    ELSE Ord(a[1]) < Ord(b[1])

(***************************************************************************)
(* csv_parser.read_csv, one loop iteration at a time                       *)
(***************************************************************************)
\* a loop body without the field-count check: zip() pairs what there is
LineStepUnchecked(hdr, rs, st, line) ==
    LET parts == SplitCsvLine(RStripNewline(line), Comma)
        b == BuildRow(hdr, parts, 1, <<>>, st)
    IN  [rows |-> Append(rs, b.row), stats |-> Bump(b.stats, "total_rows")]

\* the body of "for line in f": the rows and the counters after one line
LineStep(hdr, rs, st, line) ==
    LET parts == SplitCsvLine(RStripNewline(line), Comma)
        b == BuildRow(hdr, parts, 1, <<>>, st)
    IN  IF Len(parts) # Len(hdr)
        THEN [rows |-> rs, stats |-> Bump(st, "malformed_rows")]
        ELSE [rows |-> Append(rs, b.row), stats |-> Bump(b.stats, "total_rows")]

\* the counters read_csv starts from: the module-level dict as it stands
StatsAtOpen(st) == st

(***************************************************************************)
(* csv_parser.remove_duplicates                                            *)
(***************************************************************************)
RECURSIVE InsertItem(_, _)
InsertItem(sorted, item) ==
    IF sorted = <<>> THEN <<item>>
    ELSE IF StrLt(item[1], Head(sorted)[1]) THEN <<item>> \o sorted
    ELSE <<Head(sorted)>> \o InsertItem(Tail(sorted), item)

RECURSIVE SortedItems(_)
\* tuple(sorted(row.items())): the keys are distinct, so the order is by key
SortedItems(row) ==
    IF row = <<>> THEN <<>>
    ELSE InsertItem(SortedItems(SubSeq(row, 1, Len(row) - 1)), row[Len(row)])

\* == on two such tuples (equal tuples hash alike, so this is set membership)
RowTupleEq(a, b) ==
    /\ Len(a) = Len(b)
    /\ \A i \in 1..Len(a) : a[i][1] = b[i][1] /\ PyEq(a[i][2], b[i][2])

RECURSIVE DedupLoop(_, _, _, _, _)
DedupLoop(rs, i, seen, unique_rows, st) ==
    IF i > Len(rs) THEN [rows |-> unique_rows, stats |-> st]
    ELSE LET row_tuple == SortedItems(rs[i])
         IN  IF ~\E t \in seen : RowTupleEq(t, row_tuple)
             THEN DedupLoop(rs, i + 1, seen \cup {row_tuple}, Append(unique_rows, rs[i]), st)
             ELSE DedupLoop(rs, i + 1, seen, unique_rows, Bump(st, "duplicates_removed"))

\* remove_duplicates(rows): the list returned and the counters after the call
RemoveDuplicatesOp(rs, st) == DedupLoop(rs, 1, {}, <<>>, st)

(***************************************************************************)
(* dataframe.DataFrame                                                     *)
(***************************************************************************)
\* DataFrame(rows): the schema is read off the first row
DataFrame(rs) == [rows |-> rs, columns |-> IF Len(rs) > 0 THEN Keys(rs[1]) ELSE <<>>]

NoRes == [op |-> "none", args |-> <<>>, status |-> "none", table |-> DataFrame(<<>>), n |-> 0]

\* what a DataFrame call hands back: status "ok" or the exception raised; n
\* is count()'s value, and for the other calls the number of rows the call
\* read before it returned or raised
Ret(op, args, status, rs, n) ==
    [op |-> op, args |-> args, status |-> status, table |-> DataFrame(rs), n |-> n]

InColumns(T, col) == \E i \in 1..Len(T.columns) : T.columns[i] = col

\* row.get(col)
GetOrNone(row, col) == IF HasKey(row, col) THEN Get(row, col) ELSE NullV

\* the conditions the callers pass to filter: the test's
\* "isinstance(r.get(col), (int, float)) and r[col] > bound", and the
\* constant conditions
Condition(P, row) ==
    CASE P[1] = "gt" ->
            LET v == GetOrNone(row, P[2])
            IN  IsNumber(v) /\ NumLt(IntV(P[3]), v)
      [] P[1] = "true" -> TRUE
      [] OTHER -> FALSE

RECURSIVE FilterRowsNewestFirst(_, _, _)
\* a comprehension that puts each kept row in front of the rows kept so far
FilterRowsNewestFirst(rs, P, i) ==
    IF i > Len(rs) THEN <<>>
    ELSE FilterRowsNewestFirst(rs, P, i + 1)
         \o (IF Condition(P, rs[i]) THEN <<rs[i]>> ELSE <<>>)

RECURSIVE FilterRows(_, _, _)
\* [row for row in rows if condition(row)] from row i on
FilterRows(rs, P, i) ==
    IF i > Len(rs) THEN <<>>
    ELSE (IF Condition(P, rs[i]) THEN <<rs[i]>> ELSE <<>>) \o FilterRows(rs, P, i + 1)

\* DataFrame.filter(condition)
FilterOp(T, P) ==
    [self |-> T, ret |-> Ret("filter", P, "ok", FilterRows(T.rows, P, 1), Len(T.rows))]

RECURSIVE ProjectRow(_, _, _, _)
\* {col: row[col] for col in columns} from column i on
ProjectRow(row, columns, i, acc) ==
    IF i > Len(columns) THEN acc
    ELSE ProjectRow(row, columns, i + 1, DictSet(acc, columns[i], Get(row, columns[i])))

\* a project that meets an unknown column only while it builds the rows
ProjectOpLazy(T, columns) ==
    IF Len(T.rows) > 0 /\ \E i \in 1..Len(columns) : ~InColumns(T, columns[i])
    THEN [self |-> T, ret |-> Ret("project", columns, "UnknownColumn", <<>>, 1)]
    ELSE [self |-> T,
          ret |-> Ret("project", columns, "ok",
                      [r \in 1..Len(T.rows) |-> ProjectRow(T.rows[r], columns, 1, <<>>)],
                      Len(T.rows))]

\* DataFrame.project(columns)
ProjectOp(T, columns) ==
    IF \E i \in 1..Len(columns) : ~InColumns(T, columns[i])
    THEN [self |-> T, ret |-> Ret("project", columns, "UnknownColumn", <<>>, 0)]
    ELSE [self |-> T,
          ret |-> Ret("project", columns, "ok",
                      [r \in 1..Len(T.rows) |-> ProjectRow(T.rows[r], columns, 1, <<>>)],
                      Len(T.rows))]

\* a + b on two numbers: int + int is an int, anything else a float
NumAdd(a, b) ==
    IF a.tag = "Int" /\ b.tag = "Int" THEN IntV(a.num + b.num)
    ELSE IF IsNaN(a) \/ IsNaN(b) THEN NaNV
    ELSE FloatV(a.num * b.den + b.num * a.den, a.den * b.den)

RECURSIVE SumFrom(_, _, _)
\* sum(values): starts from int 0
SumFrom(values, i, acc) ==
    IF i > Len(values) THEN acc ELSE SumFrom(values, i + 1, NumAdd(acc, values[i]))

\* statistics.mean(values): the exact mean, an int when the data are ints and
\* the mean is whole, a float otherwise
Mean(values) ==
    LET total == SumFrom(values, 1, IntV(0))
        n == Len(values)
    IN  IF IsNaN(total) THEN NaNV
        ELSE IF total.tag = "Int" /\ total.num % n = 0 THEN IntV(total.num \div n)
        ELSE FloatV(total.num, total.den * n)

RECURSIVE MaxFrom(_, _, _)
\* max(values): the first of the largest
MaxFrom(values, i, best) ==
    IF i > Len(values) THEN best
    ELSE MaxFrom(values, i + 1, IF NumLt(best, values[i]) THEN values[i] ELSE best)

RECURSIVE MinFrom(_, _, _)
\* min(values): the first of the smallest
MinFrom(values, i, best) ==
    IF i > Len(values) THEN best
    ELSE MinFrom(values, i + 1, IF NumLt(values[i], best) THEN values[i] ELSE best)

AggFuncs == {"avg", "sum", "max", "min", "count"}

\* the if/elif chain of group_by on a non-empty list of numbers
Aggregate(func, values) ==
    CASE func = "avg" -> Mean(values)
      [] func = "sum" -> SumFrom(values, 1, IntV(0))
      [] func = "max" -> MaxFrom(values, 2, values[1])
      [] func = "min" -> MinFrom(values, 2, values[1])
      [] OTHER -> IntV(Len(values))

\* index of the group whose key equals key (dict lookup), 0 when there is none
GroupIndex(groups, key) ==
    IF \E j \in 1..Len(groups) : PyEq(groups[j].key, key)
    THEN CHOOSE j \in 1..Len(groups) : PyEq(groups[j].key, key)
    ELSE 0

RECURSIVE BuildGroups(_, _, _, _)
\* the first loop of group_by: groups[row[group_col]].append(row)
BuildGroups(rs, group_col, i, groups) ==
    IF i > Len(rs) THEN groups
    ELSE LET key == Get(rs[i], group_col)
             j == GroupIndex(groups, key)
         IN  IF j = 0
             THEN BuildGroups(rs, group_col, i + 1,
                              Append(groups, [key |-> key, rows |-> <<rs[i]>>]))
             ELSE BuildGroups(rs, group_col, i + 1,
                              [groups EXCEPT ![j].rows = Append(@, rs[i])])

RECURSIVE NumericValues(_, _, _)
\* [r[col] for r in rows if isinstance(r[col], (int, float))] from row i on
NumericValues(rs, col, i) ==
    IF i > Len(rs) THEN <<>>
    ELSE (IF IsNumber(Get(rs[i], col)) THEN <<Get(rs[i], col)>> ELSE <<>>)
         \o NumericValues(rs, col, i + 1)

\* whether the aggregation of one column raises for a group whose numeric
\* values are given: the kind is looked at only when there are values
AggRaises(func, values) == values # <<>> /\ func \notin AggFuncs

RECURSIVE AggRow(_, _, _, _)
\* the inner loop of group_by over agg_map.items() from entry i on
AggRow(grows, agg_map, i, agg_result) ==
    IF i > Len(agg_map) THEN [status |-> "ok", row |-> agg_result]
    ELSE LET col == agg_map[i][1]
             func == agg_map[i][2]
             values == NumericValues(grows, col, 1)
         IN  IF \E k \in 1..Len(grows) : ~HasKey(grows[k], col)
             THEN [status |-> "KeyError", row |-> agg_result]
             ELSE IF Len(values) = 0
             THEN AggRow(grows, agg_map, i + 1, DictSet(agg_result, col, NullV))
             ELSE IF AggRaises(func, values)
             THEN [status |-> "UnsupportedAggregation", row |-> agg_result]
             ELSE AggRow(grows, agg_map, i + 1,
                         DictSet(agg_result, col, Aggregate(func, values)))

RECURSIVE GroupRows(_, _, _, _, _)
\* the second loop of group_by over groups.items() from group j on
GroupRows(groups, group_col, agg_map, j, result) ==
    IF j > Len(groups) THEN [status |-> "ok", rows |-> result]
    ELSE LET a == AggRow(groups[j].rows, agg_map, 1, <<<<group_col, groups[j].key>>>>)
         IN  IF a.status # "ok" THEN [status |-> a.status, rows |-> <<>>]
             ELSE GroupRows(groups, group_col, agg_map, j + 1, Append(result, a.row))

\* DataFrame.group_by(group_col, agg_map); agg_map is a dict, a sequence of
\* <<column, kind>> pairs
GroupByOp(T, group_col, agg_map) ==
    IF \E i \in 1..Len(T.rows) : ~HasKey(T.rows[i], group_col)
    THEN [self |-> T, ret |-> Ret("group_by", <<group_col, agg_map>>, "KeyError", <<>>, 0)]
    ELSE LET groups == BuildGroups(T.rows, group_col, 1, <<>>)
             g == GroupRows(groups, group_col, agg_map, 1, <<>>)
         IN  [self |-> T,
              ret |-> Ret("group_by", <<group_col, agg_map>>, g.status, g.rows, Len(T.rows))]

\* the sort key (r[col] is None, r[col]) of sort_by
SortKey(row, col) == Get(row, col)

\* whether < on two sort keys raises TypeError: equal first members, unequal
\* second members of which one is a str and the other a number
KeyLtRaises(a, b) ==
    /\ ~IsNone(a) /\ ~IsNone(b)
    /\ (a.tag = "Str") # (b.tag = "Str")

\* < on two sort keys (tuples): the first members decide when they differ,
\* False < True; equal second members make the tuples equal
KeyLt(a, b) ==
    IF IsNone(a) # IsNone(b) THEN IsNone(b)
    ELSE IF PyEq(a, b) THEN FALSE
    ELSE IF a.tag = "Str" THEN StrLt(a.s, b.s)
    ELSE NumLt(a, b)

RECURSIVE InsertStable(_, _, _)
\* x goes before the first element that is greater than it
InsertStable(sorted, x, col) ==
    IF sorted = <<>> THEN <<x>>
    ELSE IF KeyLt(SortKey(x, col), SortKey(Head(sorted), col)) THEN <<x>> \o sorted
    ELSE <<Head(sorted)>> \o InsertStable(Tail(sorted), x, col)

RECURSIVE StableSort(_, _)
\* a stable ascending sort by the key
StableSort(rs, col) ==
    IF Len(rs) = 0 THEN <<>>
    ELSE InsertStable(StableSort(SubSeq(rs, 1, Len(rs) - 1), col), rs[Len(rs)], col)

Reverse(s) == [i \in 1..Len(s) |-> s[Len(s) + 1 - i]]

\* a descending sort made of an ascending sort and a reversal of its result
SortedThenReversed(rs, col, reverse) ==
    IF reverse THEN Reverse(StableSort(rs, col)) ELSE StableSort(rs, col)

\* sorted(rows, key=..., reverse=reverse): with reverse the list is reversed,
\* sorted ascending and stably, and reversed again
Sorted(rs, col, reverse) ==
    IF reverse THEN Reverse(StableSort(Reverse(rs), col)) ELSE StableSort(rs, col)

\* a sort_by that sorts self.rows in place (list.sort) and returns self
SortByOpInPlace(T, col, reverse) ==
    IF ~InColumns(T, col)
    THEN [self |-> T, ret |-> Ret("sort_by", <<col, reverse>>, "UnknownColumn", <<>>, 0)]
    ELSE IF \E i, j \in 1..Len(T.rows) :
                KeyLtRaises(SortKey(T.rows[i], col), SortKey(T.rows[j], col))
    THEN [self |-> T, ret |-> Ret("sort_by", <<col, reverse>>, "TypeError", <<>>, Len(T.rows))]
    ELSE [self |-> DataFrame(Sorted(T.rows, col, reverse)),
          ret |-> Ret("sort_by", <<col, reverse>>, "ok", Sorted(T.rows, col, reverse), Len(T.rows))]

\* DataFrame.sort_by(col, reverse)
SortByOp(T, col, reverse) ==
    IF ~InColumns(T, col)
    THEN [self |-> T, ret |-> Ret("sort_by", <<col, reverse>>, "UnknownColumn", <<>>, 0)]
    ELSE IF \E i, j \in 1..Len(T.rows) :
                KeyLtRaises(SortKey(T.rows[i], col), SortKey(T.rows[j], col))
    THEN [self |-> T, ret |-> Ret("sort_by", <<col, reverse>>, "TypeError", <<>>, Len(T.rows))]
    ELSE [self |-> T,
          ret |-> Ret("sort_by", <<col, reverse>>, "ok", Sorted(T.rows, col, reverse), Len(T.rows))]

\* DataFrame.count()
CountOp(T) == [self |-> T, ret |-> Ret("count", <<>>, "ok", <<>>, Len(T.rows))]

(***************************************************************************)
(* The ingestion process                                                   *)
(***************************************************************************)
HeaderLines == { <<"k", ",", "v">>, <<"k", ",", "k">> }

DataLines ==
    { <<"1", ",", "a">>,                \* 1,a
      <<"1", ".", "0", ",", "a">>,      \* 1.0,a
      <<",", "2">>,                     \* ,2
      <<"1">>,                          \* 1       (one field)
      <<Quote, "1", ",", "a">>,         \* "1,a    (quote left open)
      <<"n", "a", "n", ",", "a">> }     \* nan,a

Init ==
    /\ stats = ZeroStats
    /\ pc = "idle"
    /\ header = <<>>
    /\ rows = <<>>
    /\ consumed = <<>>
    /\ out = <<>>
    /\ runs = 0
    /\ df = DataFrame(<<>>)
    /\ res = NoRes
    /\ last = "init"

\* read_csv on a file with no line at all: returns [] before reading a header
ReadEmptyFile ==
    /\ pc \in {"idle", "loaded"}
    /\ runs < MaxRuns
    /\ runs' = runs + 1
    /\ stats' = StatsAtOpen(stats)
    /\ header' = <<>>
    /\ rows' = <<>>
    /\ consumed' = <<>>
    /\ out' = <<>>
    /\ pc' = "loaded"
    /\ last' = "read_csv"
    /\ UNCHANGED <<df, res>>

\* read_csv up to the header
OpenFile(h) ==
    /\ pc \in {"idle", "loaded"}
    /\ runs < MaxRuns
    /\ runs' = runs + 1
    /\ stats' = StatsAtOpen(stats)
    /\ header' = SplitCsvLine(RStripNewline(h), Comma)
    /\ rows' = <<>>
    /\ consumed' = <<>>
    /\ out' = <<>>
    /\ pc' = "reading"
    /\ last' = "open"
    /\ UNCHANGED <<df, res>>

\* one iteration of "for line in f"
ReadLine(l) ==
    /\ pc = "reading"
    /\ Len(consumed) < MaxLines
    /\ LET r == LineStep(header, rows, stats, l)
       IN  rows' = r.rows /\ stats' = r.stats
    /\ consumed' = Append(consumed, l)
    /\ last' = "line"
    /\ UNCHANGED <<pc, header, out, runs, df, res>>

\* end of file: read_csv returns rows
ReadDone ==
    /\ pc = "reading"
    /\ out' = rows
    /\ pc' = "loaded"
    /\ last' = "read_csv"
    /\ UNCHANGED <<stats, header, rows, consumed, runs, df, res>>

\* rows = remove_duplicates(rows)
RemoveDuplicates ==
    /\ pc = "loaded"
    /\ LET r == RemoveDuplicatesOp(out, stats)
       IN  out' = r.rows /\ stats' = r.stats
    /\ last' = "remove_duplicates"
    /\ UNCHANGED <<pc, header, rows, consumed, runs, df, res>>

Next ==
    \/ ReadEmptyFile
    \/ \E h \in HeaderLines : OpenFile(h)
    \/ \E l \in DataLines : ReadLine(l)
    \/ ReadDone
    \/ RemoveDuplicates

Spec == Init /\ [][Next]_vars

(***************************************************************************)
(* The table engine: queries on a table built from ingested rows           *)
(***************************************************************************)
ColK == <<"k">>
ColV == <<"v">>
ColX == <<"x">>     \* a column no table has

TableHeader == <<"k", ",", "v">>

TableLines ==
    { <<"1", ",", "2">>,                \* 1,2
      <<"1", ".", "0", ",", "1">>,      \* 1.0,1
      <<",", "1">>,                     \* ,1
      <<"a", ",">>,                     \* a,
      <<"2", ",", "1", ".", "5">>,      \* 2,1.5
      <<"1", ",">> }                    \* 1,

RECURSIVE ReadLines(_, _, _, _)
\* read_csv's loop over the given data lines
ReadLines(hdr, lines, i, acc) ==
    IF i > Len(lines) THEN acc.rows
    ELSE ReadLines(hdr, lines, i + 1, LineStep(hdr, acc.rows, acc.stats, lines[i]))

\* read_csv on a file made of a header line and data lines
ReadCsvRows(h, lines) ==
    ReadLines(SplitCsvLine(RStripNewline(h), Comma), lines, 1,
              [rows |-> <<>>, stats |-> ZeroStats])

SeqsUpTo(S, n) == UNION {[1..m -> S] : m \in 0..n}

Conditions == { <<"gt", ColV, 1>>, <<"true">>, <<"false">> }

ColumnLists ==
    { <<>>, <<ColK>>, <<ColV, ColK>>, <<ColV, ColV>>, <<ColX>>, <<ColK, ColX>> }

\* the <<group_col, agg_map>> pairs group_by is called with; "median" is a
\* kind group_by does not know
GroupCalls ==
    { <<ColK, <<<<ColV, f>>>>>> : f \in AggFuncs \cup {"median"} }
    \cup { <<ColK, <<>>>>,
           <<ColK, <<<<ColV, "avg">>, <<ColK, "count">>>>>>,
           <<ColV, <<<<ColK, "median">>>>>>,
           <<ColV, <<<<ColV, "max">>>>>>,
           <<ColX, <<<<ColV, "sum">>>>>>,
           <<ColK, <<<<ColX, "avg">>>>>> }

InitTable ==
    /\ stats = ZeroStats
    /\ pc = "query"
    /\ header = <<>>
    /\ rows = <<>>
    /\ consumed = <<>>
    /\ runs = 0
    /\ \E lines \in SeqsUpTo(TableLines, MaxRows) :
          /\ out = ReadCsvRows(TableHeader, lines)
          /\ df = DataFrame(out)
    /\ res = NoRes
    /\ last = "init"

Filter(P) ==
    /\ pc = "query"
    /\ LET r == FilterOp(df, P) IN df' = r.self /\ res' = r.ret
    /\ last' = "filter"
    /\ UNCHANGED <<stats, pc, header, rows, consumed, out, runs>>

Project(columns) ==
    /\ pc = "query"
    /\ LET r == ProjectOp(df, columns) IN df' = r.self /\ res' = r.ret
    /\ last' = "project"
    /\ UNCHANGED <<stats, pc, header, rows, consumed, out, runs>>

GroupBy(group_col, agg_map) ==
    /\ pc = "query"
    /\ LET r == GroupByOp(df, group_col, agg_map) IN df' = r.self /\ res' = r.ret
    /\ last' = "group_by"
    /\ UNCHANGED <<stats, pc, header, rows, consumed, out, runs>>

SortBy(col, reverse) ==
    /\ pc = "query"
    /\ LET r == SortByOp(df, col, reverse) IN df' = r.self /\ res' = r.ret
    /\ last' = "sort_by"
    /\ UNCHANGED <<stats, pc, header, rows, consumed, out, runs>>

Count ==
    /\ pc = "query"
    /\ LET r == CountOp(df) IN df' = r.self /\ res' = r.ret
    /\ last' = "count"
    /\ UNCHANGED <<stats, pc, header, rows, consumed, out, runs>>

NextTable ==
    \/ \E P \in Conditions : Filter(P)
    \/ \E columns \in ColumnLists : Project(columns)
    \/ \E c \in GroupCalls : GroupBy(c[1], c[2])
    \/ \E col \in {ColK, ColV, ColX}, reverse \in BOOLEAN : SortBy(col, reverse)
    \/ Count

SpecTable == InitTable /\ [][NextTable]_vars

(***************************************************************************)
(* The text functions of csv_parser, each called once on a bounded text    *)
(***************************************************************************)
\* what a function call hands back: status "ok" or the exception raised
Call(op, args, status, value) ==
    [op |-> op, args |-> args, status |-> status, value |-> value]

TextsUpTo(chars, n) == UNION {[1..m -> chars] : m \in 0..n}

TokChars == {"0", "1", "3", "7", "e", "-", ".", "n", "a", "/", "N", "x", Space}

\* at most one digit follows an "e": the floats of the model are ratios of
\* 32-bit integers, which an exponent of two digits leaves
OneDigitExponent(t) ==
    \A i \in Positions(t, "e") :
        Cardinality({j \in (i + 1)..Len(t) : t[j] \in Digits}) <= 1

\* every short token over TokChars, and the longer tokens of interest
Tokens ==
    {t \in TextsUpTo(TokChars, MaxTok) : OneDigitExponent(t)}
    \cup { <<"n", "u", "l", "l">>, <<"N", "o", "n", "e">>, <<"N", "U", "L", "L">>,
           <<Space, "0", "0", "7", Space>>, <<"-", "0", "0", "7">>,
           <<"1", ".", "5", "e", "-", "1">>, <<"n", "o", "n", "e", "x">> }

LineChars == {"a", Comma, Quote, Newline, ";"}

\* a,"b,c",""   and   "he said ""hi"""
QuotedLines ==
    { <<"a", Comma, Quote, "b", Comma, "c", Quote, Comma, Quote, Quote>>,
      <<Quote, "h", "e", Space, "s", "a", "i", "d", Space, Quote, Quote,
        "h", "i", Quote, Quote, Quote>> }

Lines == TextsUpTo(LineChars, MaxLineLen) \cup QuotedLines

Delimiters == {Comma, ";"}

\* the lines iterating over a file yields: no newline but a final one
FileLines ==
    {l \in Lines : \A i \in 1..Len(l) : l[i] = Newline => i = Len(l)}

InitText ==
    /\ stats = ZeroStats
    /\ pc = "text"
    /\ header = <<>>
    /\ rows = <<>>
    /\ consumed = <<>>
    /\ out = <<>>
    /\ runs = 0
    /\ df = DataFrame(<<>>)
    /\ res = NoRes
    /\ last = "init"

\* _coerce(tok)
CoerceCall(tok) ==
    /\ pc = "text"
    /\ LET c == Coerce(stats, tok)
       IN  /\ stats' = c.stats
           /\ res' = Call("_coerce", <<tok>>, "ok", c.val)
    /\ pc' = "done"
    /\ last' = "_coerce"
    /\ UNCHANGED <<header, rows, consumed, out, runs, df>>

\* _split_csv_line(line, delimiter)
SplitCall(line, delimiter) ==
    /\ pc = "text"
    /\ res' = Call("_split_csv_line", <<line, delimiter>>, "ok",
                   SplitCsvLine(line, delimiter))
    /\ pc' = "done"
    /\ last' = "_split_csv_line"
    /\ UNCHANGED <<stats, header, rows, consumed, out, runs, df>>

\* read_csv on a file of the header line h and the one data line l
ReadOneLine(h, l) ==
    /\ pc = "text"
    /\ header' = SplitCsvLine(RStripNewline(h), Comma)
    /\ LET r == LineStep(header', <<>>, StatsAtOpen(stats), l)
       IN  rows' = r.rows /\ stats' = r.stats /\ out' = r.rows
    /\ consumed' = <<l>>
    /\ runs' = runs + 1
    /\ pc' = "done"
    /\ last' = "read_csv"
    /\ UNCHANGED <<df, res>>

\* one call, on any of the inputs
NextText ==
    \/ pc = "text" /\ \E tok \in Tokens : CoerceCall(tok)
    \/ pc = "text" /\ \E line \in Lines, delimiter \in Delimiters :
                          SplitCall(line, delimiter)
    \/ pc = "text" /\ \E h \in HeaderLines, l \in FileLines : ReadOneLine(h, l)

SpecText == InitText /\ [][NextText]_vars

(***************************************************************************)
(* filters.py: the bucket test and the predicate builder                   *)
(***************************************************************************)
TRACK_POPULARITY ==
    <<"t", "r", "a", "c", "k", "_", "p", "o", "p", "u", "l", "a", "r", "i", "t", "y">>
PLAYLIST_GENRE ==
    <<"p", "l", "a", "y", "l", "i", "s", "t", "_", "g", "e", "n", "r", "e">>
PLAYLIST_SUBGENRE ==
    <<"p", "l", "a", "y", "l", "i", "s", "t", "_", "s", "u", "b", "g", "e", "n", "r", "e">>
DANCEABILITY == <<"d", "a", "n", "c", "e", "a", "b", "i", "l", "i", "t", "y">>
ENERGY == <<"e", "n", "e", "r", "g", "y">>
TEMPO == <<"t", "e", "m", "p", "o">>
LIVENESS == <<"l", "i", "v", "e", "n", "e", "s", "s">>
TRACK_ALBUM_RELEASE_DATE ==
    <<"t", "r", "a", "c", "k", "_", "a", "l", "b", "u", "m", "_",
      "r", "e", "l", "e", "a", "s", "e", "_", "d", "a", "t", "e">>

\* an Optional[Tuple[float, float]]: None, or (low, high)
NoRange == [some |-> FALSE, low |-> NullV, high |-> NullV]
Range(low, high) == [some |-> TRUE, low |-> low, high |-> high]

\* Python's <= on two numbers
NumLe(a, b) == ~IsNaN(a) /\ ~IsNaN(b) /\ a.num * b.den <= b.num * a.den

\* the denominator of the tolerance 1e-9
TolDen == 1000000000

\* abs(v - n) < 1e-9 for a number v and an integer n:
\* |num - n * den| / den < 1 / TolDen
Near(v, n) == v.den > 0 /\ Abs(v.num - n * v.den) <= (v.den - 1) \div TolDen

\* bool(v)
Truthy(v) ==
    CASE IsNone(v) -> FALSE
      [] v.tag = "Str" -> v.s # <<>>
      [] OTHER -> IsNaN(v) \/ v.num # 0

PyBool(b) == IF b THEN "True" ELSE "False"

\* a bucket test that is half-open whatever the caller marks
InBucketHalfOpen(val, rng, top_inclusive) ==
    IF IsNone(val) THEN "False"
    ELSE IF ~IsNumber(val) THEN "TypeError"
    ELSE PyBool(NumLe(rng.low, val) /\ NumLt(val, rng.high))

\* in_bucket(val, rng, top_inclusive): "True", "False", or the TypeError of
\* comparing a str with a float
InBucket(val, rng, top_inclusive) ==
    IF IsNone(val) THEN "False"
    ELSE IF ~IsNumber(val) THEN "TypeError"
    ELSE IF top_inclusive
    THEN PyBool(NumLe(rng.low, val) /\ NumLe(val, rng.high))
    ELSE PyBool(NumLe(rng.low, val) /\ NumLt(val, rng.high))

RECURSIVE SplitOn(_, _, _, _)
\* t.split(c) from index i on, cur being the part in progress
SplitOn(t, c, i, cur) ==
    IF i > Len(t) THEN <<cur>>
    ELSE IF t[i] = c THEN <<cur>> \o SplitOn(t, c, i + 1, <<>>)
    ELSE SplitOn(t, c, i + 1, Append(cur, t[i]))

\* the arguments of build_predicate with every filter on ANY
NoConstraints ==
    [pop_range |-> NoRange, genre |-> NullV, subgenre |-> NullV,
     dance_range |-> NoRange, energy_range |-> NoRange, tempo_range |-> NoRange,
     live_range |-> NoRange, month |-> NullV, year |-> NullV]

\* step 8 of _pred: the month and the year of the release date
DateCheck(c, row) ==
    IF IsNone(c.month) /\ IsNone(c.year) THEN "True"
    ELSE LET ds == GetOrNone(row, TRACK_ALBUM_RELEASE_DATE)
             shaped == ds.tag = "Str" /\ Len(ds.s) >= 7 /\ ds.s[5] = "-"
             parts == SplitOn(ds.s, "-", 1, <<>>)
             parsed == shaped /\ Len(parts) >= 2
                         /\ IsDigitStr(parts[1]) /\ IsDigitStr(parts[2])
             y2 == IF parsed THEN IntV(DigitsVal(parts[1])) ELSE NullV
             m2 == IF parsed THEN IntV(DigitsVal(parts[2])) ELSE NullV
         IN  IF ~IsNone(c.month) /\ ~PyEq(m2, c.month) THEN "False"
             ELSE IF ~IsNone(c.year) /\ ~PyEq(y2, c.year) THEN "False"
             ELSE "True"

\* the outcome of a run of checks that returns at the first one that fails
FirstFailure(checks) ==
    IF \E i \in 1..Len(checks) : checks[i] # "True"
    THEN checks[CHOOSE i \in 1..Len(checks) :
                   checks[i] # "True" /\ \A j \in 1..(i - 1) : checks[j] = "True"]
    ELSE "True"

\* a _pred that looks at the subgenre only when no genre is chosen
PredGenreOrSubgenre(c, row) ==
    LET top_pop == c.pop_range.some /\ Near(c.pop_range.high, 100)
        top_01(rng) == rng.some /\ Near(rng.high, 1)
        Bucket(rng, col, top) ==
            IF rng.some THEN InBucket(GetOrNone(row, col), rng, top) ELSE "True"
        Choice(want, col) ==
            PyBool(~(Truthy(want) /\ ~PyEq(GetOrNone(row, col), want)))
    IN  FirstFailure(<<
            Bucket(c.pop_range, TRACK_POPULARITY, top_pop),
            Choice(c.genre, PLAYLIST_GENRE),
            IF Truthy(c.genre) THEN "True" ELSE Choice(c.subgenre, PLAYLIST_SUBGENRE),
            Bucket(c.dance_range, DANCEABILITY, top_01(c.dance_range)),
            Bucket(c.energy_range, ENERGY, top_01(c.energy_range)),
            Bucket(c.tempo_range, TEMPO, TRUE),
            Bucket(c.live_range, LIVENESS, top_01(c.live_range)),
            DateCheck(c, row) >>)

\* build_predicate(...)(row): "True", "False", or the exception raised
Pred(c, row) ==
    LET top_pop == c.pop_range.some /\ Near(c.pop_range.high, 100)
        top_01(rng) == rng.some /\ Near(rng.high, 1)
        Bucket(rng, col, top) ==
            IF rng.some THEN InBucket(GetOrNone(row, col), rng, top) ELSE "True"
        Choice(want, col) ==
            PyBool(~(Truthy(want) /\ ~PyEq(GetOrNone(row, col), want)))
    IN  FirstFailure(<<
            Bucket(c.pop_range, TRACK_POPULARITY, top_pop),
            Choice(c.genre, PLAYLIST_GENRE),
            Choice(c.subgenre, PLAYLIST_SUBGENRE),
            Bucket(c.dance_range, DANCEABILITY, top_01(c.dance_range)),
            Bucket(c.energy_range, ENERGY, top_01(c.energy_range)),
            Bucket(c.tempo_range, TEMPO, TRUE),
            Bucket(c.live_range, LIVENESS, top_01(c.live_range)),
            DateCheck(c, row) >>)

(***************************************************************************)
(* filters.py: the selector parsers                                        *)
(***************************************************************************)
ANY == <<"a", "n", "y">>

\* parse_range_or_any(s), s being None or a str
ParseRangeOrAny(s) ==
    IF ~Truthy(s) THEN NoRange
    ELSE LET t == Strip(s.s)
             parts == SplitOn(t, "-", 1, <<>>)
             a == ParseFloat(Strip(parts[1]))
             b == ParseFloat(Strip(parts[2]))
         IN  IF Lower(t) = ANY THEN NoRange
             ELSE IF Len(parts) # 2 THEN NoRange
             ELSE IF ~a.ok \/ ~b.ok THEN NoRange
             ELSE IF NumLt(b.val, a.val) THEN NoRange
             ELSE Range(a.val, b.val)

\* int(t) for a str t: surrounding blanks and one leading "-" are accepted;
\* ok = FALSE is ValueError
IntOf(t) ==
    LET u == Strip(t)
        neg == u # <<>> /\ u[1] = "-"
        body == IF neg THEN Tail(u) ELSE u
    IN  IF IsDigitStr(body)
        THEN [ok |-> TRUE, val |-> IF neg THEN -DigitsVal(body) ELSE DigitsVal(body)]
        ELSE [ok |-> FALSE, val |-> 0]

name_to_num ==
    { <<<<"j", "a", "n">>, 1>>, <<<<"j", "a", "n", "u", "a", "r", "y">>, 1>>,
      <<<<"f", "e", "b">>, 2>>, <<<<"f", "e", "b", "r", "u", "a", "r", "y">>, 2>>,
      <<<<"m", "a", "r">>, 3>>, <<<<"m", "a", "r", "c", "h">>, 3>>,
      <<<<"a", "p", "r">>, 4>>, <<<<"a", "p", "r", "i", "l">>, 4>>,
      <<<<"m", "a", "y">>, 5>>,
      <<<<"j", "u", "n">>, 6>>, <<<<"j", "u", "n", "e">>, 6>>,
      <<<<"j", "u", "l">>, 7>>, <<<<"j", "u", "l", "y">>, 7>>,
      <<<<"a", "u", "g">>, 8>>, <<<<"a", "u", "g", "u", "s", "t">>, 8>>,
      <<<<"s", "e", "p">>, 9>>, <<<<"s", "e", "p", "t">>, 9>>,
      <<<<"s", "e", "p", "t", "e", "m", "b", "e", "r">>, 9>>,
      <<<<"o", "c", "t">>, 10>>, <<<<"o", "c", "t", "o", "b", "e", "r">>, 10>>,
      <<<<"n", "o", "v">>, 11>>, <<<<"n", "o", "v", "e", "m", "b", "e", "r">>, 11>>,
      <<<<"d", "e", "c">>, 12>>, <<<<"d", "e", "c", "e", "m", "b", "e", "r">>, 12>> }

\* month_to_int_or_any(m), m being None or a str
MonthToIntOrAny(m) ==
    IF ~Truthy(m) THEN NullV
    ELSE LET s == Lower(Strip(m.s))
             opens == Positions(s, "(")
             r == CHOOSE i \in opens : \A j \in opens : j <= i
             inner == IntOf(SubSeq(s, r + 1, Len(s) - 1))
         IN  IF s = ANY THEN NullV
             ELSE IF IsDigitStr(s)
             THEN IF 1 <= DigitsVal(s) /\ DigitsVal(s) <= 12
                  THEN IntV(DigitsVal(s)) ELSE NullV
             ELSE IF opens # {} /\ s[Len(s)] = ")"
             THEN IF inner.ok THEN IntV(inner.val) ELSE NullV
             ELSE IF \E p \in name_to_num : p[1] = s
             THEN IntV((CHOOSE p \in name_to_num : p[1] = s)[2])
             ELSE NullV

\* parse_year_or_any(y), y being None or a str
ParseYearOrAny(y) ==
    IF ~Truthy(y) THEN NullV
    ELSE LET s == Lower(Strip(y.s))
         IN  IF s = ANY THEN NullV
             ELSE IF IsDigitStr(s) /\ Len(s) = 4 THEN IntV(DigitsVal(s))
             ELSE NullV

(***************************************************************************)
(* services.build_options: the tempo buckets                               *)
(***************************************************************************)
RECURSIVE TempoValues(_, _)
\* [r.get("tempo") for r in rows if isinstance(r.get("tempo"), (int, float))]
TempoValues(rs, i) ==
    IF i > Len(rs) THEN <<>>
    ELSE (IF IsNumber(GetOrNone(rs[i], TEMPO)) THEN <<GetOrNone(rs[i], TEMPO)>> ELSE <<>>)
         \o TempoValues(rs, i + 1)

\* int(x) for a number x: the fraction is cut off, towards zero
IntTrunc(v) == IF v.num >= 0 THEN v.num \div v.den ELSE -((-v.num) \div v.den)

DigitChar(d) ==
    CASE d = 0 -> "0" [] d = 1 -> "1" [] d = 2 -> "2" [] d = 3 -> "3" [] d = 4 -> "4"
      [] d = 5 -> "5" [] d = 6 -> "6" [] d = 7 -> "7" [] d = 8 -> "8" [] OTHER -> "9"

RECURSIVE NatToText(_)
NatToText(n) ==
    IF n < 10 THEN <<DigitChar(n)>> ELSE Append(NatToText(n \div 10), DigitChar(n % 10))

\* f"{n}" for an int n
IntToText(n) == IF n < 0 THEN <<"-">> \o NatToText(-n) ELSE NatToText(n)

BucketWidth == 20

RECURSIVE BucketLabels(_, _)
\* [f"{a}-{a+20}" for a in range(a, end, 20)]
BucketLabels(a, end) ==
    IF a >= end THEN <<>>
    ELSE <<IntToText(a) \o <<"-">> \o IntToText(a + BucketWidth)>>
         \o BucketLabels(a + BucketWidth, end)

\* build_options(rows, genre_choice)["tempo_options"]
TempoOptions(rs) ==
    LET tempos == TempoValues(rs, 1)
        tmin == IntTrunc(MinFrom(tempos, 2, tempos[1]))
        tmax == IntTrunc(MaxFrom(tempos, 2, tempos[1]))
        start == (tmin \div BucketWidth) * BucketWidth
        end == ((tmax + BucketWidth - 1) \div BucketWidth) * BucketWidth
    IN  IF Len(tempos) > 0
        THEN << <<"A", "N", "Y">> >> \o BucketLabels(start, end)
        ELSE << <<"A", "N", "Y">> >>

\* f"{i/10:.1f}" for i in 0..10: one digit after the point
TenthsToText(i) == IntToText(i \div 10) \o <<".", DigitChar(i % 10)>>

\* build_options(...)["pop_options"] without its leading "ANY":
\* [f"{i}-{i+10}" for i in range(0, 100, 10)]
PopOptions == [j \in 1..10 |-> IntToText(10 * (j - 1)) \o <<"-">> \o IntToText(10 * j)]

\* build_options(...)["float_buckets"] without its leading "ANY":
\* [f"{i/10:.1f}-{(i+1)/10:.1f}" for i in range(0, 10)]
FloatBuckets == [j \in 1..10 |-> TenthsToText(j - 1) \o <<"-">> \o TenthsToText(j)]

(***************************************************************************)
(* services.apply_pipeline                                                 *)
(***************************************************************************)
TRACK_NAME == <<"t", "r", "a", "c", "k", "_", "n", "a", "m", "e">>
TRACK_ARTIST == <<"t", "r", "a", "c", "k", "_", "a", "r", "t", "i", "s", "t">>
TRACK_ALBUM_NAME ==
    <<"t", "r", "a", "c", "k", "_", "a", "l", "b", "u", "m", "_", "n", "a", "m", "e">>

PROJECT_COLS == <<TRACK_NAME, TRACK_ARTIST, TRACK_ALBUM_NAME, TRACK_ALBUM_RELEASE_DATE>>

\* the agg_map of apply_pipeline
PipelineAggMap == << <<TRACK_POPULARITY, "avg">>, <<DANCEABILITY, "avg">> >>

POPULARITY == <<"p", "o", "p", "u", "l", "a", "r", "i", "t", "y">>

RECURSIVE PredRows(_, _, _)
\* [row for row in rows if predicate(row)] from row i on, the predicate being
\* the one build_predicate makes of the constraints c
PredRows(rs, c, i) ==
    IF i > Len(rs) THEN <<>>
    ELSE (IF Pred(c, rs[i]) = "True" THEN <<rs[i]>> ELSE <<>>) \o PredRows(rs, c, i + 1)

\* DataFrame.filter(build_predicate(...))
FilterPredOp(T, c) ==
    IF \E i \in 1..Len(T.rows) : Pred(c, T.rows[i]) = "TypeError"
    THEN [self |-> T, ret |-> Ret("filter", c, "TypeError", <<>>, Len(T.rows))]
    ELSE [self |-> T, ret |-> Ret("filter", c, "ok", PredRows(T.rows, c, 1), Len(T.rows))]

\* None if (not choice or choice == "ANY") else choice
ChoiceOrNone(choice) ==
    IF ~Truthy(choice) \/ choice = StrV(<<"A", "N", "Y">>) THEN NullV ELSE choice

\* the typed filters apply_pipeline resolves the selections sel to
ResolveSelections(sel) ==
    [pop_range |-> ParseRangeOrAny(sel.pop_bucket),
     genre |-> ChoiceOrNone(sel.genre_choice),
     subgenre |-> ChoiceOrNone(sel.subgenre_choice),
     dance_range |-> ParseRangeOrAny(sel.dance_bucket),
     energy_range |-> ParseRangeOrAny(sel.energy_bucket),
     tempo_range |-> ParseRangeOrAny(sel.tempo_bucket),
     live_range |-> ParseRangeOrAny(sel.live_bucket),
     month |-> MonthToIntOrAny(sel.month_label),
     year |-> ParseYearOrAny(sel.year_label)]

\* the column apply_pipeline sorts the grouped table by, <<>> being None
SortKeyFor(sort_choice) ==
    IF sort_choice = StrV(POPULARITY) THEN TRACK_POPULARITY
    ELSE IF sort_choice = StrV(DANCEABILITY) THEN DANCEABILITY
    ELSE <<>>

\* df_grouped.sort_by(sort_key, reverse=False) if sort_key else df_grouped,
\* grouped being what group_by handed back
SortedOrGrouped(grouped, sort_choice) ==
    IF SortKeyFor(sort_choice) # <<>>
    THEN SortByOp(grouped.table, SortKeyFor(sort_choice), FALSE).ret
    ELSE grouped

\* what apply_pipeline hands back, given what its four DataFrame calls handed
\* back: the five tables <<df_raw, df_filtered, df_projected, df_grouped,
\* df_sorted>>, or the exception of the first call that raised
ApplyPipelineOp(rs, sel, sort_choice, filtered, projected, grouped, sorted) ==
    LET status == FirstFailure(<< IF filtered.status = "ok" THEN "True" ELSE filtered.status,
                                  IF projected.status = "ok" THEN "True" ELSE projected.status,
                                  IF grouped.status = "ok" THEN "True" ELSE grouped.status,
                                  IF sorted.status = "ok" THEN "True" ELSE sorted.status >>)
    IN  Call("apply_pipeline", <<rs, sel, sort_choice>>,
             IF status = "True" THEN "ok" ELSE status,
             IF status = "True"
             THEN <<DataFrame(rs), filtered.table, projected.table, grouped.table,
                    sorted.table>>
             ELSE <<>>)

(***************************************************************************)
(* The selectors: each function of filters.py and build_options called     *)
(* once on bounded inputs                                                  *)
(***************************************************************************)
F(n) == FloatV(n, 1)
Tenths(n) == FloatV(n, 10)

POP == <<"p", "o", "p">>
ROCK == <<"r", "o", "c", "k">>

\* the constraint sets of the AND checks: each filter on ANY or on one value
ConstraintSets ==
    [pop_range : {NoRange, Range(F(90), F(100))},
     genre : {NullV, StrV(POP)},
     subgenre : {NullV, StrV(ROCK)},
     dance_range : {NoRange, Range(Tenths(5), Tenths(6))},
     energy_range : {NoRange, Range(Tenths(9), F(1))},
     tempo_range : {NoRange, Range(F(100), F(120))},
     live_range : {NoRange, Range(F(0), Tenths(1))},
     month : {NullV, IntV(1)},
     year : {NullV, IntV(2021)}]

\* a row every constraint of ConstraintSets accepts
GoodRow ==
    << <<TRACK_POPULARITY, IntV(100)>>, <<PLAYLIST_GENRE, StrV(POP)>>,
       <<PLAYLIST_SUBGENRE, StrV(ROCK)>>, <<DANCEABILITY, Tenths(5)>>,
       <<ENERGY, F(1)>>, <<TEMPO, IntV(120)>>, <<LIVENESS, FloatV(5, 100)>>,
       <<TRACK_ALBUM_RELEASE_DATE,
         StrV(<<"2", "0", "2", "1", "-", "0", "1", "-", "1", "5">>)>> >>

\* for each column, a value its constraint rejects
BadValues ==
    << <<TRACK_POPULARITY, IntV(89)>>, <<PLAYLIST_GENRE, StrV(ROCK)>>,
       <<PLAYLIST_SUBGENRE, StrV(POP)>>, <<DANCEABILITY, Tenths(6)>>,
       <<ENERGY, NullV>>, <<TEMPO, FloatV(1201, 10)>>, <<LIVENESS, Tenths(1)>>,
       <<TRACK_ALBUM_RELEASE_DATE,
         StrV(<<"2", "0", "2", "0", "-", "0", "1", "-", "1", "5">>)>> >>

Without(row, col) == SelectSeq(row, LAMBDA p : p[1] # col)

\* the good row; the good row with one value rejected, with one column left
\* out, with a str where a number is expected; and the row with no column
RowPool ==
    {GoodRow, <<>>, DictSet(GoodRow, TRACK_POPULARITY, StrV(POP))}
    \cup {DictSet(GoodRow, BadValues[i][1], BadValues[i][2]) : i \in 1..Len(BadValues)}
    \cup {Without(GoodRow, BadValues[i][1]) : i \in 1..Len(BadValues)}

AndCalls == ConstraintSets \X RowPool

RangeFields ==
    { <<"pop_range", TRACK_POPULARITY>>, <<"dance_range", DANCEABILITY>>,
      <<"energy_range", ENERGY>>, <<"tempo_range", TEMPO>>,
      <<"live_range", LIVENESS>> }

RangePool ==
    { Range(F(90), F(100)), Range(F(80), F(90)), Range(Tenths(9), F(1)),
      Range(Tenths(8), Tenths(9)), Range(F(0), F(1)), Range(F(100), F(120)) }

ValuePool ==
    { NullV, IntV(90), IntV(100), IntV(1), IntV(0), IntV(120), F(100), F(1),
      Tenths(9), Tenths(8), FloatV(95, 100), FloatV(1001, 10), NaNV }

\* one range constraint and a row holding one value in its column
BucketCalls ==
    { << [NoConstraints EXCEPT ![f[1]] = rng], << <<f[2], v>> >> >> :
         f \in RangeFields, rng \in RangePool, v \in ValuePool }

DateChars == {"1", "2", "-"}

DateRows ==
    { << <<TRACK_ALBUM_RELEASE_DATE, StrV(t)>> >> : t \in TextsUpTo(DateChars, MaxDateLen) }
    \cup { <<>>, << <<TRACK_ALBUM_RELEASE_DATE, NullV>> >>,
           << <<TRACK_ALBUM_RELEASE_DATE, IntV(2121)>> >> }

\* a month and a year constraint, one of them at least, and a row holding a
\* release date
DateCalls ==
    { << [NoConstraints EXCEPT !.month = m, !.year = y], row >> :
         m \in {NullV, IntV(1), IntV(12)}, y \in {NullV, IntV(2121)}, row \in DateRows }

SelChars == {"a", "n", "y", "A", "1", "3", "(", ")", "-", Space}

\* None, every short text over SelChars, and the longer selectors of interest
Selectors ==
    {NullV}
    \cup { StrV(t) : t \in TextsUpTo(SelChars, MaxSel) }
    \cup { StrV(<<"J", "a", "n", Space, "(", "1", ")">>),
           StrV(<<"D", "e", "c", Space, "(", "1", "2", ")">>),
           StrV(<<"x", Space, "(", "1", "3", ")">>),
           StrV(<<"s", "e", "p", "t">>), StrV(<<"2", "0", "2", "1">>),
           StrV(<<"2", "0", "2", "1", "0">>),
           StrV(<<"9", "0", "-", "1", "0", "0">>),
           StrV(<<"0", ".", "9", "-", "1", ".", "0">>),
           StrV(<<"1", "0", "0", "-", "9", "0">>),
           StrV(<<"n", "a", "n", "-", "n", "a", "n">>) }

TempoPool == {IntV(90), IntV(100), IntV(119), IntV(120), FloatV(201, 2), NullV}

\* tables of rows holding a tempo
TempoTables ==
    { [i \in 1..Len(vs) |-> << <<TEMPO, vs[i]>> >>] : vs \in SeqsUpTo(TempoPool, MaxRows) }

\* a row of the tracks file, with the columns apply_pipeline reads
Track(name, artist, date, pop, dance, genre) ==
    << <<TRACK_NAME, StrV(name)>>, <<TRACK_ARTIST, StrV(artist)>>,
       <<TRACK_ALBUM_NAME, StrV(<<"l">>)>>, <<TRACK_ALBUM_RELEASE_DATE, StrV(date)>>,
       <<TRACK_POPULARITY, pop>>, <<DANCEABILITY, dance>>,
       <<PLAYLIST_GENRE, StrV(genre)>> >>

PipelineRows ==
    { Track(<<"a">>, <<"x">>, <<"2", "0", "2", "1", "-", "0", "1", "-", "1", "5">>,
            IntV(95), Tenths(5), POP),
      Track(<<"b">>, <<"x">>, <<"2", "0", "2", "0", "-", "1", "2", "-", "0", "1">>,
            IntV(5), Tenths(9), ROCK),
      Track(<<"c">>, <<"y">>, <<"2", "0", "2", "1", "-", "0", "1", "-", "0", "2">>,
            NullV, F(1), POP) }

PipelineTables == SeqsUpTo(PipelineRows, MaxRows)

\* the nine selections of apply_pipeline, every one on None
NoSelection ==
    [pop_bucket |-> NullV, genre_choice |-> NullV, subgenre_choice |-> NullV,
     dance_bucket |-> NullV, energy_bucket |-> NullV, tempo_bucket |-> NullV,
     live_bucket |-> NullV, month_label |-> NullV, year_label |-> NullV]

\* selections that keep every row, some rows, and no row of the tables
Selections ==
    { NoSelection,
      [NoSelection EXCEPT !.genre_choice = StrV(<<"A", "N", "Y">>)],
      [NoSelection EXCEPT !.genre_choice = StrV(POP)],
      [NoSelection EXCEPT !.genre_choice = StrV(<<"j", "a", "z", "z">>)],
      [NoSelection EXCEPT !.pop_bucket = StrV(<<"9", "0", "-", "1", "0", "0">>)],
      [NoSelection EXCEPT !.pop_bucket = StrV(<<"4", "0", "-", "5", "0">>)],
      [NoSelection EXCEPT !.year_label = StrV(<<"1", "9", "9", "9">>)],
      [NoSelection EXCEPT !.month_label = StrV(<<"J", "a", "n", Space, "(", "1", ")">>),
                          !.year_label = StrV(<<"2", "0", "2", "1">>)] }

SortChoices == {NullV, StrV(POPULARITY), StrV(DANCEABILITY)}

InitSelect ==
    /\ stats = ZeroStats
    /\ pc = "select"
    /\ header = <<>>
    /\ rows = <<>>
    /\ consumed = <<>>
    /\ out = <<>>
    /\ runs = 0
    /\ df = DataFrame(<<>>)
    /\ res = NoRes
    /\ last = "init"

\* build_predicate(...)(row)
ApplyPredicate(c, row) ==
    /\ pc = "select"
    /\ LET v == Pred(c, row)
       IN  res' = Call("_pred", <<c, row>>, IF v = "TypeError" THEN v ELSE "ok", v)
    /\ pc' = "done"
    /\ last' = "_pred"
    /\ UNCHANGED <<stats, header, rows, consumed, out, runs, df>>

ParseRange(s) ==
    /\ pc = "select"
    /\ res' = Call("parse_range_or_any", <<s>>, "ok", ParseRangeOrAny(s))
    /\ pc' = "done"
    /\ last' = "parse_range_or_any"
    /\ UNCHANGED <<stats, header, rows, consumed, out, runs, df>>

MonthToInt(m) ==
    /\ pc = "select"
    /\ res' = Call("month_to_int_or_any", <<m>>, "ok", MonthToIntOrAny(m))
    /\ pc' = "done"
    /\ last' = "month_to_int_or_any"
    /\ UNCHANGED <<stats, header, rows, consumed, out, runs, df>>

ParseYear(y) ==
    /\ pc = "select"
    /\ res' = Call("parse_year_or_any", <<y>>, "ok", ParseYearOrAny(y))
    /\ pc' = "done"
    /\ last' = "parse_year_or_any"
    /\ UNCHANGED <<stats, header, rows, consumed, out, runs, df>>

\* build_options(rows, None)["tempo_options"]
BuildOptions(rs) ==
    /\ pc = "select"
    /\ out' = rs
    /\ res' = Call("build_options", <<rs>>, "ok", TempoOptions(rs))
    /\ pc' = "done"
    /\ last' = "build_options"
    /\ UNCHANGED <<stats, header, rows, consumed, runs, df>>

\* apply_pipeline(rows, <selections>, sort_choice): the selections are
\* resolved, then filter, project, group_by and sort_by are called in turn
ApplyPipeline(rs, sel, sort_choice) ==
    /\ pc = "select"
    /\ out' = rs
    /\ \E c \in {ResolveSelections(sel)} :
       \E filtered \in {FilterPredOp(DataFrame(rs), c).ret} :
       \E projected \in {ProjectOp(filtered.table, PROJECT_COLS).ret},
          grouped \in {GroupByOp(filtered.table, TRACK_ARTIST, PipelineAggMap).ret} :
       \E sorted \in {SortedOrGrouped(grouped, sort_choice)} :
          res' = ApplyPipelineOp(rs, sel, sort_choice, filtered, projected, grouped, sorted)
    /\ pc' = "done"
    /\ last' = "apply_pipeline"
    /\ UNCHANGED <<stats, header, rows, consumed, runs, df>>

\* one call, on any of the inputs
NextSelect ==
    \/ pc = "select" /\ \E call \in AndCalls \cup BucketCalls \cup DateCalls :
                            ApplyPredicate(call[1], call[2])
    \/ pc = "select" /\ \E s \in Selectors : ParseRange(s)
    \/ pc = "select" /\ \E m \in Selectors : MonthToInt(m)
    \/ pc = "select" /\ \E y \in Selectors : ParseYear(y)
    \/ pc = "select" /\ \E rs \in TempoTables : BuildOptions(rs)
    \/ pc = "select" /\ \E rs \in PipelineTables, sel \in Selections, sort_choice \in SortChoices :
                            ApplyPipeline(rs, sel, sort_choice)

SpecSelect == InitSelect /\ [][NextSelect]_vars

(***************************************************************************)
(* Properties                                                              *)
(***************************************************************************)
\* equality of typed values as the specification's data model has it: the
\* same variant and the same payload (a NaN equals nothing)
TypedEq(a, b) == a = b /\ ~IsNaN(a)

TypedRowEq(r1, r2) ==
    /\ KeySet(r1) = KeySet(r2)
    /\ \A k \in KeySet(r1) : TypedEq(Get(r1, k), Get(r2, k))

RECURSIVE FirstValues(_, _)
\* the values of s from index i on that equal no earlier value of s
FirstValues(s, i) ==
    IF i > Len(s) THEN <<>>
    ELSE (IF \E j \in 1..(i - 1) : TypedEq(s[j], s[i]) THEN <<>> ELSE <<s[i]>>)
         \o FirstValues(s, i + 1)

RECURSIVE FirstRows(_, _)
\* the rows of s from index i on that equal no earlier row of s
FirstRows(s, i) ==
    IF i > Len(s) THEN <<>>
    ELSE (IF \E j \in 1..(i - 1) : TypedRowEq(s[j], s[i]) THEN <<>> ELSE <<s[i]>>)
         \o FirstRows(s, i + 1)

RECURSIVE FirstNames(_, _)
\* the column names of s from index i on that no earlier index holds
FirstNames(s, i) ==
    IF i > Len(s) THEN <<>>
    ELSE (IF \E j \in 1..(i - 1) : s[j] = s[i] THEN <<>> ELSE <<s[i]>>)
         \o FirstNames(s, i + 1)

Column(rs, col) == [i \in 1..Len(rs) |-> Get(rs[i], col)]

FieldCount(line) == Len(SplitCsvLine(RStripNewline(line), Comma))

\* C1: after a successful sort_by(col, descending), in either direction, no
\* row with Null at col comes before a row with a non-null value at col.
C1_NullsLastInBothDirections ==
    (last = "sort_by" /\ res.status = "ok") =>
        LET c == Column(res.table.rows, res.args[1])
        IN  \A i, j \in 1..Len(c) : (i < j /\ IsNone(c[i])) => IsNone(c[j])

\* C2: when a read_csv run has returned, the counters hold the counts of that
\* run alone: total rows = rows returned, malformed rows = data lines not
\* returned, total fields = rows returned times header fields, and the four
\* type counters add up to the fields of this run.
C2_StatsAreThoseOfTheLastRun ==
    (pc = "loaded" /\ last = "read_csv") =>
        /\ stats.total_rows = Len(out)
        /\ stats.malformed_rows = Len(consumed) - Len(out)
        /\ stats.total_fields = Len(out) * Len(header)
        /\ stats.num_nulls + stats.num_ints + stats.num_floats + stats.num_strings
             = Len(out) * Len(header)

\* C3: every row the ingestor has produced has as many entries as the header
\* has fields, and its keys are exactly the header's names.
C3_RowsHaveTheHeadersArity ==
    \A i \in 1..Len(rows) :
        /\ Len(rows[i]) = Len(header)
        /\ KeySet(rows[i]) = {header[j] : j \in 1..Len(header)}

\* C4, one line: a line whose field count equals the header's is appended as
\* the last row and counted in total_rows only; any other line leaves the rows
\* alone and is counted in malformed_rows only.
LineOutcome ==
    last' = "line" =>
        LET l == consumed'[Len(consumed')]
        IN  IF FieldCount(l) = Len(header)
            THEN /\ Len(rows') = Len(rows) + 1
                 /\ SubSeq(rows', 1, Len(rows)) = rows
                 /\ stats'.total_rows = stats.total_rows + 1
                 /\ stats'.malformed_rows = stats.malformed_rows
            ELSE /\ rows' = rows
                 /\ stats'.total_rows = stats.total_rows
                 /\ stats'.malformed_rows = stats.malformed_rows + 1

\* C4, the run: the rows so far are as many as the well-formed lines read so
\* far, so that rows returned + malformed lines = data lines.
RunOutcome ==
    pc \in {"reading", "loaded"} =>
        LET bad == {i \in 1..Len(consumed) : FieldCount(consumed[i]) # Len(header)}
        IN  /\ Len(rows) + Cardinality(bad) = Len(consumed)
            /\ (pc = "loaded" /\ last = "read_csv") => out = rows

\* C4: during a run every data line is either appended as a row and counted
\* as a row, or discarded and counted as malformed, never both and never
\* neither, and the run goes on; at its end rows + malformed = data lines.
C4_EachLineIsARowOrMalformed == [][LineOutcome]_vars /\ []RunOutcome

\* C4 witness: a run that returned a row and skipped a malformed line.
C4_Witness ==
    /\ pc = "loaded" /\ last = "read_csv"
    /\ Len(out) = 1 /\ Len(consumed) = 2
    /\ stats.malformed_rows = 1

\* C5: a group_by call that names an aggregation kind outside avg, sum, max,
\* min, count fails with the unsupported-aggregation error, whatever the table.
C5_UnknownKindAlwaysFails ==
    (last = "group_by"
       /\ (\A i \in 1..Len(res.args[2]) : res.args[2][i][1] \in {ColK, ColV})
       /\ res.args[1] \in {ColK, ColV}
       /\ \E i \in 1..Len(res.args[2]) :
              res.args[2][i][2] \notin {"avg", "sum", "max", "min", "count"})
    => res.status = "UnsupportedAggregation"

\* C6: project(columns) with a column outside the schema fails with the
\* unknown-column error having read no row and returning no table; otherwise
\* the result has the receiver's rows, in order, each holding the requested
\* columns in the requested order (a repeated column once) with the
\* receiver's values.  The receiver is the table built from the ingested rows
\* in both cases.
C6_ProjectIsAllOrNothing ==
    last = "project" =>
        LET columns == res.args
        IN  /\ df = DataFrame(out)
            /\ IF \E i \in 1..Len(columns) : ~InColumns(df, columns[i])
               THEN /\ res.status = "UnknownColumn"
                    /\ res.n = 0
                    /\ Len(res.table.rows) = 0
               ELSE /\ res.status = "ok"
                    /\ Len(res.table.rows) = Len(df.rows)
                    /\ \A r \in 1..Len(df.rows) :
                          /\ Keys(res.table.rows[r]) = FirstNames(columns, 1)
                          /\ \A i \in 1..Len(columns) :
                                Get(res.table.rows[r], columns[i])
                                  = Get(df.rows[r], columns[i])

\* C6 witness: a projection that failed on its second column, on a table
\* with rows.
C6_Witness ==
    /\ last = "project" /\ res.args = <<ColK, ColX>>
    /\ res.status = "UnknownColumn"
    /\ Len(df.rows) >= 2

\* C7: a successful group_by(key_column, aggs) returns one row per distinct
\* key value of the input, keyed by that value, in first-seen order.
C7_OneRowPerDistinctKey ==
    (last = "group_by" /\ res.status = "ok") =>
        Column(res.table.rows, res.args[1])
          = FirstValues(Column(df.rows, res.args[1]), 1)

\* C8: no table operation, successful or failing, changes its receiver.
C8_ReceiverIsNeverMutated ==
    [][last' \in {"filter", "project", "group_by", "sort_by", "count"} => df' = df]_vars

\* C8 witness: a sort that returned the rows in another order than the
\* receiver still holds them in.
C8_Witness ==
    /\ last = "sort_by" /\ res.status = "ok"
    /\ Len(df.rows) >= 2
    /\ res.table.rows # df.rows
    /\ df = DataFrame(out)

NoTwoEqual(rs) == \A i, j \in 1..Len(rs) : TypedRowEq(rs[i], rs[j]) => i = j

\* C9: remove_duplicates returns the first occurrence of each distinct row
\* in input order, leaves no two equal rows, returns its own output unchanged
\* when applied again, and adds input length - output length to the
\* duplicates-removed counter.
C9_DedupIsStableAndIdempotent ==
    [][last' = "remove_duplicates" =>
          /\ out' = FirstRows(out, 1)
          /\ NoTwoEqual(out')
          /\ RemoveDuplicatesOp(out', stats').rows = out'
          /\ RemoveDuplicatesOp(out', stats').stats = stats'
          /\ stats'.duplicates_removed
               = stats.duplicates_removed + Len(out) - Len(out')]_vars

\* C10: remove_duplicates drops a row exactly when an earlier row maps every
\* column to an equal typed value, values of different variants never being
\* equal.
C10_DropsExactlyTypedDuplicates ==
    [][last' = "remove_duplicates" =>
          LET kept == {i \in 1..Len(out) :
                          ~\E j \in 1..(i - 1) : TypedRowEq(out[j], out[i])}
          IN  /\ Len(out') = Cardinality(kept)
              /\ \A i \in kept : \E m \in 1..Len(out') : out'[m] = out[i]]_vars

\* C11: filter(P) returns exactly the receiver's rows on which P is true, in
\* their original relative order: the rows at the indices where P holds,
\* taken in increasing index order, so never more rows than the receiver has.
C11_FilterKeepsTheMatchingRowsInOrder ==
    last = "filter" =>
        LET kept == {i \in 1..Len(df.rows) : Condition(res.args, df.rows[i])}
            got == res.table.rows
        IN  /\ df = DataFrame(out)
            /\ res.status = "ok"
            /\ Len(got) = Cardinality(kept)
            /\ Len(got) <= Len(df.rows)
            /\ \E f \in [1..Len(got) -> kept] :
                  /\ \A a, b \in 1..Len(got) : a < b => f[a] < f[b]
                  /\ \A a \in 1..Len(got) : got[a] = df.rows[f[a]]

\* C11 witness: a filter that kept two different rows and dropped another.
C11_Witness ==
    /\ last = "filter" /\ res.args[1] = "gt"
    /\ Len(df.rows) = 3
    /\ Len(res.table.rows) = 2
    /\ res.table.rows[1] # res.table.rows[2]

\* C12: the coercer classifies the trimmed token by the first rule that
\* matches, in the order null alias, integer, float, string: a null alias (in
\* any letter case) gives Null; digits with at most one leading "-" give the
\* Integer of that value and never a Float, so "007" gives Integer 7; a token
\* float() accepts that is neither gives that Float, so "1e3" gives Float
\* 1000.0; "-" alone and every other text gives the trimmed token as String.
C12_CoercerTriesNullIntFloatString ==
    last = "_coerce" =>
        LET t == Strip(res.args[1])
            v == res.value
            isNull == Lower(t) \in NULLS
            isInt == IsDigitStr(t) \/ (Len(t) >= 2 /\ t[1] = "-" /\ IsDigitStr(Tail(t)))
            magnitude == IF t[1] = "-" THEN Tail(t) ELSE t
            isFloat == ParseFloat(t).ok
        IN  /\ res.status = "ok"
            /\ isNull => v = NullV
            /\ (~isNull /\ isInt) =>
                  v = IntV((IF t[1] = "-" THEN -1 ELSE 1) * DigitsVal(magnitude))
            /\ (~isNull /\ ~isInt /\ isFloat) => v.tag = "Float" /\ v = ParseFloat(t).val
            /\ (~isNull /\ ~isInt /\ ~isFloat) => v = StrV(t)
            /\ t = <<"0", "0", "7">> => v = IntV(7)
            /\ t = <<"1", "e", "3">> => v = FloatV(1000, 1)
            /\ t = <<"-">> => v = StrV(<<"-">>)
            /\ t = <<"N", "/", "a">> => v = NullV

\* C12 witness: " 007 " was coerced to Integer 7.
C12_Witness ==
    /\ last = "_coerce"
    /\ res.args[1] = <<Space, "0", "0", "7", Space>>
    /\ res.value = IntV(7)

RECURSIVE QuoteFlag(_, _, _)
\* the in-quotes flag after the characters from index i on, starting from q:
\* a quote toggles it, but for a doubled quote met while it is on
QuoteFlag(line, i, q) ==
    IF i > Len(line) THEN q
    ELSE IF line[i] = Quote
    THEN IF q /\ i + 1 <= Len(line) /\ line[i + 1] = Quote
         THEN QuoteFlag(line, i + 2, q)
         ELSE QuoteFlag(line, i + 1, ~q)
    ELSE QuoteFlag(line, i + 1, q)

RECURSIVE SeparatorCount(_, _, _, _)
\* the number of delimiter characters met from index i on while the flag is off
SeparatorCount(line, d, i, q) ==
    IF i > Len(line) THEN 0
    ELSE IF line[i] = Quote
    THEN IF q /\ i + 1 <= Len(line) /\ line[i + 1] = Quote
         THEN SeparatorCount(line, d, i + 2, q)
         ELSE SeparatorCount(line, d, i + 1, ~q)
    ELSE (IF line[i] = d /\ ~q THEN 1 ELSE 0) + SeparatorCount(line, d, i + 1, q)

RECURSIVE LiteralContent(_, _, _, _)
\* the characters from index i on that are field content: one quote per
\* doubled quote inside quotes, no other quote, no separator, no newline
\* outside quotes
LiteralContent(line, d, i, q) ==
    IF i > Len(line) THEN <<>>
    ELSE IF line[i] = Quote
    THEN IF q /\ i + 1 <= Len(line) /\ line[i + 1] = Quote
         THEN <<Quote>> \o LiteralContent(line, d, i + 2, q)
         ELSE LiteralContent(line, d, i + 1, ~q)
    ELSE IF ~q /\ line[i] \in {d, Newline}
    THEN LiteralContent(line, d, i + 1, q)
    ELSE <<line[i]>> \o LiteralContent(line, d, i + 1, q)

RECURSIVE Flatten(_)
Flatten(ss) == IF ss = <<>> THEN <<>> ELSE Head(ss) \o Flatten(Tail(ss))

\* C13: the tokenizer yields 1 + (delimiters met while the in-quotes flag is
\* off) fields, whose characters are the line's content characters in order:
\* a delimiter inside quotes is content, a doubled quote inside quotes is one
\* quote, any other quote and a newline outside quotes are dropped.  The
\* empty line yields one empty field, a,"b,c","" yields [a, b,c, empty] and
\* "he said ""hi""" yields the one field he said "hi".
C13_TokenizerSplitsOutsideQuotesOnly ==
    last = "_split_csv_line" =>
        LET line == res.args[1]
            d == res.args[2]
            fields == res.value
        IN  /\ res.status = "ok"
            /\ Len(fields) = 1 + SeparatorCount(line, d, 1, FALSE)
            /\ Flatten(fields) = LiteralContent(line, d, 1, FALSE)
            /\ line = <<>> => fields = << <<>> >>
            /\ (line = <<"a", Comma, Quote, "b", Comma, "c", Quote, Comma, Quote, Quote>>
                  /\ d = Comma)
                 => fields = << <<"a">>, <<"b", Comma, "c">>, <<>> >>
            /\ line = <<Quote, "h", "e", Space, "s", "a", "i", "d", Space, Quote, Quote,
                        "h", "i", Quote, Quote, Quote>>
                 => fields = << <<"h", "e", Space, "s", "a", "i", "d", Space, Quote,
                                  "h", "i", Quote>> >>

\* C13 witness: "he said ""hi""" was split into its one field.
C13_Witness ==
    /\ last = "_split_csv_line"
    /\ Len(res.args[1]) = 16
    /\ Len(res.value) = 1
    /\ Len(res.value[1]) = 12

\* C14: a data line that ends with the in-quotes flag still set is tokenized
\* without an error and is then discarded by the field-count validation: it
\* is counted as malformed and never becomes a row.
C14_UnbalancedQuotesAreMalformed ==
    (last = "read_csv" /\ pc = "done"
       /\ QuoteFlag(RStripNewline(consumed[1]), 1, FALSE))
    => /\ out = <<>>
       /\ stats.malformed_rows = 1
       /\ stats.total_rows = 0

ConstraintNames ==
    {"pop_range", "genre", "subgenre", "dance_range", "energy_range",
     "tempo_range", "live_range", "month", "year"}

\* the constraint set that holds constraint k of c and nothing else
Alone(c, k) == [NoConstraints EXCEPT ![k] = c[k]]

\* C15: the predicate is the AND of the constraints that are present: it is
\* true for a row exactly when each present constraint, taken alone, is true
\* for that row, and with no constraint present it is true for every row,
\* rows without the tracked columns included.
C15_PredicateIsTheAndOfPresentConstraints ==
    last = "_pred" =>
        LET c == res.args[1]
            row == res.args[2]
        IN  /\ (res.value = "True") <=>
                  \A k \in ConstraintNames :
                      c[k] # NoConstraints[k] => Pred(Alone(c, k), row) = "True"
            /\ c = NoConstraints => res.value = "True"

\* C15 witness: all nine constraints were present and the row passed them.
C15_Witness ==
    /\ last = "_pred"
    /\ \A k \in ConstraintNames : res.args[1][k] # NoConstraints[k]
    /\ res.args[2] = GoodRow
    /\ res.value = "True"

\* C16: a range constraint is false for Null and otherwise low <= v < high,
\* or low <= v <= high when the range is top-inclusive: a popularity range
\* whose upper bound is 100, a danceability, energy or liveness range whose
\* upper bound is 1.0, and every tempo range.  So (90, 100) on popularity
\* accepts 100 and (80, 90) rejects 90.  (The code compares the upper bound
\* within 1e-9; for the bounds of RangePool that is equality.)
C16_BucketsAreHalfOpenButTheTopOnes ==
    (last = "_pred" /\ <<res.args[1], res.args[2]>> \in BucketCalls) =>
        LET c == res.args[1]
            v == res.args[2][1][2]
            f == CHOOSE k \in ConstraintNames : c[k] # NoConstraints[k]
            rng == c[f]
            top == \/ f = "pop_range" /\ PyEq(rng.high, IntV(100))
                   \/ f \in {"dance_range", "energy_range", "live_range"}
                        /\ PyEq(rng.high, IntV(1))
                   \/ f = "tempo_range"
            inside == /\ ~IsNone(v)
                      /\ NumLe(rng.low, v)
                      /\ IF top THEN NumLe(v, rng.high) ELSE NumLt(v, rng.high)
        IN  /\ res.value = PyBool(inside)
            /\ (f = "pop_range" /\ rng = Range(F(90), F(100)) /\ v = IntV(100))
                 => res.value = "True"
            /\ (f = "pop_range" /\ rng = Range(F(80), F(90)) /\ v = IntV(90))
                 => res.value = "False"

\* C16 witness: the range (90, 100) on popularity accepted a popularity of 100.
C16_Witness ==
    /\ last = "_pred"
    /\ res.args[1] = [NoConstraints EXCEPT !.pop_range = Range(F(90), F(100))]
    /\ res.args[2] = << <<TRACK_POPULARITY, IntV(100)>> >>
    /\ res.value = "True"

\* a str that starts with a 4-digit year, "-", and a 2-digit month
HasYearMonthPrefix(ds) ==
    /\ ds.tag = "Str"
    /\ Len(ds.s) >= 7
    /\ IsDigitStr(SubSeq(ds.s, 1, 4))
    /\ ds.s[5] = "-"
    /\ IsDigitStr(SubSeq(ds.s, 6, 7))

\* C17: with a month or a year constraint set, a row whose release date is
\* missing, Null, no str, or does not start with YYYY-MM is rejected; a row
\* whose date does start with YYYY-MM passes exactly when that year is the
\* constrained year and that month the constrained month, for each one set.
C17_DateConstraintsFailClosed ==
    (last = "_pred" /\ <<res.args[1], res.args[2]>> \in DateCalls
       /\ (~IsNone(res.args[1].month) \/ ~IsNone(res.args[1].year))) =>
        LET c == res.args[1]
            ds == GetOrNone(res.args[2], TRACK_ALBUM_RELEASE_DATE)
        IN  IF ~HasYearMonthPrefix(ds) THEN res.value = "False"
            ELSE res.value =
                   PyBool(/\ ~IsNone(c.year) => DigitsVal(SubSeq(ds.s, 1, 4)) = c.year.num
                          /\ ~IsNone(c.month) => DigitsVal(SubSeq(ds.s, 6, 7)) = c.month.num)

\* C18: no selector parser raises; month_to_int_or_any returns None or an
\* integer in 1..12, parse_year_or_any returns None or the integer of a
\* 4-digit string, parse_range_or_any returns None or (low, high) with
\* low <= high.
C18_SelectorParsersAreRangeSafe ==
    /\ last = "month_to_int_or_any" =>
          /\ res.status = "ok"
          /\ \/ res.value = NullV
             \/ res.value.tag = "Int" /\ 1 <= res.value.num /\ res.value.num <= 12
    /\ last = "parse_year_or_any" =>
          /\ res.status = "ok"
          /\ \/ res.value = NullV
             \/ /\ res.value.tag = "Int"
                /\ Len(Strip(res.args[1].s)) = 4
                /\ IsDigitStr(Strip(res.args[1].s))
                /\ res.value.num = DigitsVal(Strip(res.args[1].s))
    /\ last = "parse_range_or_any" =>
          /\ res.status = "ok"
          /\ \/ res.value = NoRange
             \/ res.value.some /\ NumLe(res.value.low, res.value.high)

\* C19: for a table with a numeric tempo, every row's numeric tempo is
\* accepted by the predicate of at least one offered tempo bucket, the
\* bucket's label being parsed back into the tempo constraint.
C19_TempoBucketsCoverEveryTempo ==
    last = "build_options" =>
        LET rs == res.args[1]
            buckets == {res.value[i] : i \in 2..Len(res.value)}
        IN  \A i \in 1..Len(rs) :
                IsNumber(GetOrNone(rs[i], TEMPO)) =>
                    \E label \in buckets :
                        Pred([NoConstraints EXCEPT
                                 !.tempo_range = ParseRangeOrAny(StrV(label))],
                             rs[i]) = "True"

\* < on two non-null values of one kind: numbers by value, strs by character
ValueLt(a, b) == IF a.tag = "Str" THEN StrLt(a.s, b.s) ELSE NumLt(a, b)

\* C20: sort_by on a column outside the schema fails with the unknown-column
\* error; a sort that returns gives a permutation of the receiver's rows in
\* which the non-null values of the column never decrease (ascending) or
\* never increase (descending), and in which rows with equal values at the
\* column keep their input order, in both directions.
C20_SortIsAStableOrderedPermutation ==
    last = "sort_by" =>
        LET col == res.args[1]
            reverse == res.args[2]
            n == Len(df.rows)
            got == res.table.rows
            c == Column(got, col)
        IN  IF ~InColumns(df, col) THEN res.status = "UnknownColumn"
            ELSE res.status = "ok" =>
                /\ Len(got) = n
                /\ \A i, j \in 1..n :
                      (i < j /\ ~IsNone(c[i]) /\ ~IsNone(c[j])) =>
                          IF reverse THEN ~ValueLt(c[i], c[j]) ELSE ~ValueLt(c[j], c[i])
                /\ \E p \in [1..n -> 1..n] :
                      /\ \A i, j \in 1..n : p[i] = p[j] => i = j
                      /\ \A i \in 1..n : got[i] = df.rows[p[i]]
                      /\ \A i, j \in 1..n :
                            (i < j /\ PyEq(c[i], c[j])) => p[i] < p[j]

\* C20 witness: a descending sort returned two different rows with equal
\* values at the column and a third row before them.
C20_Witness ==
    /\ last = "sort_by" /\ res.status = "ok" /\ res.args[2] = TRUE
    /\ Len(res.table.rows) = 3
    /\ LET c == Column(res.table.rows, res.args[1])
       IN  /\ PyEq(c[2], c[3]) /\ ~IsNone(c[2])
           /\ res.table.rows[2] # res.table.rows[3]
           /\ ~IsNone(c[1]) /\ ~PyEq(c[1], c[2])

\* the calls apply_pipeline makes after its filter, made on the table T
DownstreamStatus(T, sort_choice) ==
    LET grouped == GroupByOp(T, TRACK_ARTIST, PipelineAggMap).ret
    IN  /\ ProjectOp(T, PROJECT_COLS).ret.status = "ok"
        /\ grouped.status = "ok"
        /\ SortedOrGrouped(grouped, sort_choice).status = "ok"

\* C21: filter keeps the schema of its receiver even when no row matches.
\* For every table T with a non-empty schema and every combination of
\* selections, if project, group_by and sort_by succeed when called on T,
\* then the filtered table has T's columns, the same calls succeed on it,
\* and apply_pipeline returns its five tables.
C21_FilterPreservesTheSchema ==
    last = "apply_pipeline" =>
        LET T == DataFrame(res.args[1])
            filtered == FilterPredOp(T, ResolveSelections(res.args[2])).ret
        IN  (T.columns # <<>> /\ filtered.status = "ok" /\ DownstreamStatus(T, res.args[3]))
                => /\ filtered.table.columns = T.columns
                   /\ DownstreamStatus(filtered.table, res.args[3])
                   /\ res.status = "ok"
                   /\ Len(res.value) = 5

\* the buckets among labels that accept the row when the label is parsed by
\* parse_range_or_any and given to build_predicate as the range named field
AcceptingBuckets(labels, field, row) ==
    { i \in 1..Len(labels) :
         Pred([NoConstraints EXCEPT ![field] = ParseRangeOrAny(StrV(labels[i]))], row) = "True" }

\* values on and between the edges of the popularity and of the 0..1 buckets
PopularityValues == { IntV(10 * k) : k \in 0..10 } \cup { IntV(5), FloatV(995, 10), NullV }
UnitValues == { Tenths(k) : k \in 0..10 } \cup { FloatV(95, 100), IntV(0), IntV(1), NullV }

\* C22: within each bucket family offered by build_options the buckets are
\* mutually exclusive as filters: for any row, the rows of the table and rows
\* whose value lies on a bucket edge included, at most one bucket of the
\* popularity family, of the 0.0-1.0 family (on danceability, energy and
\* liveness) and of the tempo family accepts the row.
C22_BucketsOfAFamilyAreMutuallyExclusive ==
    last = "build_options" =>
        /\ \A v \in PopularityValues :
              Cardinality(AcceptingBuckets(PopOptions, "pop_range",
                                           << <<TRACK_POPULARITY, v>> >>)) <= 1
        /\ \A f \in RangeFields \ { <<"pop_range", TRACK_POPULARITY>>, <<"tempo_range", TEMPO>> } :
              \A v \in UnitValues :
                 Cardinality(AcceptingBuckets(FloatBuckets, f[1], << <<f[2], v>> >>)) <= 1
        /\ \A row \in { out[i] : i \in 1..Len(out) }
                      \cup { << <<TEMPO, v>> >> : v \in TempoPool \cup ValuePool } :
              Cardinality(AcceptingBuckets(Tail(res.value), "tempo_range", row)) <= 1

====
